---------------------------- MODULE Spec2Model ----------------------------
(***************************************************************************)
(* A model of calmjs.interrogate: the decoder (to_str), the two tree       *)
(* filters (shallow_filter, deep_filter), the import-shape classifier      *)
(* (import_checks and its extractors) and the drivers                      *)
(* (yield_module_imports, extract_module_imports,                          *)
(* extract_function_argument).                                             *)
(*                                                                         *)
(* Text is a sequence of one-character strings.  A syntax tree is the      *)
(* sequence of its nodes in document (depth-first pre-order) order, each   *)
(* node a record [kind, value, depth]; node 1 is the Program.  A node is   *)
(* named by its index, which plays the part of the Python object identity. *)
(***************************************************************************)
EXTENDS Integers, Sequences, FiniteSets, TLC

VARIABLES text, pc, call, gen, out

vars == <<text, pc, call, gen, out>>

----------------------------------------------------------------------------
(* Bounds of the model *)

\* longest body of a string literal given to to_str
MaxBody == 3
\* longest dependency array given to the list extractor
MaxElems == 4
\* most arguments of a call whose argument kinds are enumerated exhaustively
MaxArgs == 3

----------------------------------------------------------------------------
(* Characters and text *)

DQ == "\""
SQ == "'"
BS == "\\"
NL == "\n"

Quotes == {DQ, SQ}

s_require == <<"r", "e", "q", "u", "i", "r", "e">>
s_define == <<"d", "e", "f", "i", "n", "e">>
s_exports == <<"e", "x", "p", "o", "r", "t", "s">>
s_module == <<"m", "o", "d", "u", "l", "e">>
s_foo == <<"f", "o", "o">>
s_inner == <<"i", "n", "n", "e", "r">>
s_name == <<"n", "a", "m", "e">>

Max(S) == CHOOSE x \in S : \A y \in S : y <= x
Min(S) == CHOOSE x \in S : \A y \in S : x <= y

\* the text between one quote character and the same one (the source form
\* of a string literal)
Quoted(q, body) == <<q>> \o body \o <<q>>

\* re.compile('([\"\'])(.*)(\\1)').sub('\\2', s), from position p on: the
\* leftmost match starts at a quote character, '.*' is greedy and does not
\* cross a newline, and the match ends at the last occurrence of the same
\* quote character on that line; the scan goes on after the match.
RECURSIVE strip_quotes_from(_, _)
strip_quotes_from(s, p) ==
    IF p > Len(s) THEN <<>>
    ELSE IF s[p] \in Quotes
    THEN LET nls == {k \in (p + 1)..Len(s) : s[k] = NL}
             lineEnd == IF nls = {} THEN Len(s) ELSE Min(nls) - 1
             closers == {e \in (p + 1)..lineEnd : s[e] = s[p]}
         IN  IF closers = {}
             THEN <<s[p]>> \o strip_quotes_from(s, p + 1)
             ELSE SubSeq(s, p + 1, Max(closers) - 1)
                      \o strip_quotes_from(s, Max(closers) + 1)
    ELSE <<s[p]>> \o strip_quotes_from(s, p + 1)

strip_quotes(s) == strip_quotes_from(s, 1)

\* re.compile(r'\\(.)').sub('\\1', s), from position p on: a backslash
\* followed by any character but a newline is replaced by that character.
RECURSIVE strip_slashes_from(_, _)
strip_slashes_from(s, p) ==
    IF p > Len(s) THEN <<>>
    ELSE IF s[p] = BS /\ p + 1 <= Len(s) /\ s[p + 1] # NL
    THEN <<s[p + 1]>> \o strip_slashes_from(s, p + 2)
    ELSE <<s[p]>> \o strip_slashes_from(s, p + 1)

strip_slashes(s) == strip_slashes_from(s, 1)

\* to_str(ast_string), given the node's value
to_str(value) == strip_slashes(strip_quotes(value))

----------------------------------------------------------------------------
(* Syntax trees *)

Kinds == {"Program", "ExprStatement", "FunctionCall", "Arguments",
          "Identifier", "String", "Array", "FuncExpr", "DotAccessor"}

RECURSIVE Concat(_)
Concat(ss) == IF ss = <<>> THEN <<>> ELSE Head(ss) \o Concat(Tail(ss))

Shift(t) == [i \in 1..Len(t) |-> [t[i] EXCEPT !.depth = @ + 1]]

\* a node of kind k with the given children (each a tree), in document order
Node(k, v, kids) ==
    <<[kind |-> k, value |-> v, depth |-> 0]>> \o Shift(Concat(kids))

\* the node types of calmjs.parse.asttypes the code names or walks through
Identifier(v) == Node("Identifier", v, <<>>)
String(v) == Node("String", v, <<>>)
Array(items) == Node("Array", <<>>, items)
Arguments(items) == Node("Arguments", <<>>, items)
FunctionCall(identifier, items) ==
    Node("FunctionCall", <<>>, <<identifier, Arguments(items)>>)
FuncExpr(parameters, elements) ==
    Node("FuncExpr", <<>>, parameters \o elements)
DotAccessor(node, identifier) == Node("DotAccessor", <<>>, <<node, identifier>>)
ExprStatement(expr) == Node("ExprStatement", <<>>, <<expr>>)
Program(statements) == Node("Program", <<>>, statements)

\* the increasing sequence of the members of a set of integers
RECURSIVE SortedSeq(_)
SortedSeq(S) == IF S = {} THEN <<>> ELSE <<Min(S)>> \o SortedSeq(S \ {Min(S)})

\* the last node of the subtree of node i
End(t, i) ==
    LET after == {j \in (i + 1)..Len(t) : t[j].depth <= t[i].depth}
    IN  IF after = {} THEN Len(t) ELSE Min(after) - 1

\* iter(node): the immediate children of node i, in order
children(t, i) ==
    SortedSeq({j \in (i + 1)..End(t, i) : t[j].depth = t[i].depth + 1})

\* node.identifier and node.args.items of a FunctionCall node
identifier(t, i) == children(t, i)[1]
args_items(t, i) == children(t, children(t, i)[2])

isinstance(t, i, kind) == t[i].kind = kind


----------------------------------------------------------------------------
(* The external parser, calmjs.parse.parsers.es5.parse *)

\* What the parser guarantees of a tree it returns.  A text that is not of
\* this form (an unbalanced nesting, a call without its argument list) is
\* rejected.
WellFormed(t) ==
    /\ Len(t) >= 1
    /\ t[1].kind = "Program" /\ t[1].depth = 0
    /\ \A i \in 2..Len(t) :
          /\ t[i].kind \in Kinds \ {"Program"}
          /\ t[i].depth >= 1 /\ t[i].depth <= t[i - 1].depth + 1
    /\ \A i \in 1..Len(t) :
          LET kids == children(t, i)
          IN  /\ t[i].kind \in {"String", "Identifier"} => kids = <<>>
              /\ t[i].kind = "ExprStatement" => Len(kids) = 1
              /\ t[i].kind = "DotAccessor" =>
                    Len(kids) = 2 /\ t[kids[2]].kind = "Identifier"
              /\ t[i].kind = "FunctionCall" =>
                    Len(kids) = 2 /\ t[kids[2]].kind = "Arguments"
              /\ \A k \in 1..Len(kids) :
                    t[kids[k]].kind = "Arguments" =>
                        t[i].kind = "FunctionCall" /\ k = 2

\* parse(text): the tree, or the parser's error
parse(src) ==
    IF WellFormed(src) THEN [raised |-> FALSE, tree |-> src]
    ELSE [raised |-> TRUE, tree |-> <<>>]

----------------------------------------------------------------------------
(* Filters.  A condition is given by the set of nodes on which it is true; *)
(* a generator is given by the sequence of what it yields.                 *)

\* deep_filter as it would be if it did not walk into a node it yields
RECURSIVE deep_filter_stops(_, _, _)
deep_filter_stops(t, program, condition) ==
    LET kids == children(t, program)
    IN  Concat([k \in 1..Len(kids) |->
                   IF kids[k] \in condition THEN <<kids[k]>>
                   ELSE deep_filter_stops(t, kids[k], condition)])

RECURSIVE deep_filter(_, _, _)
deep_filter(t, program, condition) ==
    LET kids == children(t, program)
    IN  Concat([k \in 1..Len(kids) |->
                   (IF kids[k] \in condition THEN <<kids[k]>> ELSE <<>>)
                       \o deep_filter(t, kids[k], condition)])

\* shallow_filter as it would be if it walked into the nodes it yields
RECURSIVE shallow_filter_descends(_, _, _)
shallow_filter_descends(t, program, condition) ==
    LET kids == children(t, program)
    IN  Concat([k \in 1..Len(kids) |->
                   (IF kids[k] \in condition THEN <<kids[k]>> ELSE <<>>)
                       \o shallow_filter_descends(t, kids[k], condition)])

RECURSIVE shallow_filter(_, _, _)
shallow_filter(t, program, condition) ==
    LET kids == children(t, program)
    IN  Concat([k \in 1..Len(kids) |->
                   IF kids[k] \in condition THEN <<kids[k]>>
                   ELSE shallow_filter(t, kids[k], condition)])

\* the lambda of yield_function: a FunctionCall whose identifier is an
\* Identifier node
is_identifier_call(t) ==
    {i \in 1..Len(t) : /\ isinstance(t, i, "FunctionCall")
                       /\ isinstance(t, identifier(t, i), "Identifier")}

yield_function(t, program, filter_func) ==
    IF filter_func = "shallow_filter"
    THEN shallow_filter(t, program, is_identifier_call(t))
    ELSE deep_filter(t, program, is_identifier_call(t))

----------------------------------------------------------------------------
(* extract_function_argument *)

\* node.args.items[n], n counted from 0 as in the code
item(t, node, n) == args_items(t, node)[n + 1]

\* filter_function_argument as it would be over the deep filter
filter_function_argument_deep(t, program, f_name, f_argn, f_argt) ==
    LET nodes == yield_function(t, program, "deep_filter")
    IN  Concat([k \in 1..Len(nodes) |->
                   IF /\ t[identifier(t, nodes[k])].value = f_name
                      /\ f_argn < Len(args_items(t, nodes[k]))
                      /\ isinstance(t, item(t, nodes[k], f_argn), f_argt)
                   THEN <<to_str(t[item(t, nodes[k], f_argn)].value)>>
                   ELSE <<>>])

filter_function_argument(t, program, f_name, f_argn, f_argt) ==
    LET nodes == yield_function(t, program, "shallow_filter")
    IN  Concat([k \in 1..Len(nodes) |->
                   IF /\ t[identifier(t, nodes[k])].value = f_name
                      /\ f_argn < Len(args_items(t, nodes[k]))
                      /\ isinstance(t, item(t, nodes[k], f_argn), f_argt)
                   THEN <<to_str(t[item(t, nodes[k], f_argn)].value)>>
                   ELSE <<>>])

extract_function_argument(src, f_name, f_argn, f_argt) ==
    LET r == parse(src)
    IN  IF r.raised THEN [raised |-> TRUE, value |-> <<>>]
        ELSE [raised |-> FALSE,
              value |-> filter_function_argument(r.tree, 1, f_name, f_argn, f_argt)]

----------------------------------------------------------------------------
(* The import-shape classifier *)

\* dict.get of a missing key
None == <<"None">>

define_wrapped == [i \in 0..2 |-> <<s_require, s_exports, s_module>>[i + 1]]
define_wrapped_get(i) ==
    IF i \in DOMAIN define_wrapped THEN define_wrapped[i] ELSE None

reserved_module == {s_module}

\* yield_require_list_arguments as it would be if a wrapped-slot word were
\* suppressed at every index
yield_require_list_arguments_any_slot(t, node, pos) ==
    LET elems == children(t, item(t, node, pos))
    IN  Concat([k \in 1..Len(elems) |->
                   IF isinstance(t, elems[k], "String")
                   THEN LET result == to_str(t[elems[k]].value)
                        IN  IF /\ result \notin reserved_module
                               /\ \A i \in DOMAIN define_wrapped :
                                     result # define_wrapped[i]
                            THEN <<result>>
                            ELSE <<>>
                   ELSE <<>>])

yield_require_list_arguments(t, node, pos) ==
    LET elems == children(t, item(t, node, pos))
    IN  Concat([k \in 1..Len(elems) |->
                   IF isinstance(t, elems[k], "String")
                   THEN LET result == to_str(t[elems[k]].value)
                        IN  IF /\ result \notin reserved_module
                               /\ result # define_wrapped_get(k - 1)
                            THEN <<result>>
                            ELSE <<>>
                   ELSE <<>>])

yield_require_argument(t, node, pos) == <<to_str(t[item(t, node, pos)].value)>>

\* the first lambda as it would be without its test of the identifier
condition_1_any_callee(t, node) ==
    /\ Len(args_items(t, node)) = 1
    /\ isinstance(t, item(t, node, 0), "String")

\* the third lambda as it would be if copied from the second unchanged
condition_3_require(t, node) ==
    /\ Len(args_items(t, node)) >= 2
    /\ isinstance(t, item(t, node, 0), "Array")
    /\ isinstance(t, item(t, node, 1), "FuncExpr")
    /\ t[identifier(t, node)].value = s_require

\* the four lambdas of import_checks
condition_1(t, node) ==
    /\ Len(args_items(t, node)) = 1
    /\ isinstance(t, item(t, node, 0), "String")
    /\ t[identifier(t, node)].value = s_require

condition_2(t, node) ==
    /\ Len(args_items(t, node)) >= 2
    /\ isinstance(t, item(t, node, 0), "Array")
    /\ isinstance(t, item(t, node, 1), "FuncExpr")
    /\ t[identifier(t, node)].value = s_require

condition_3(t, node) ==
    /\ Len(args_items(t, node)) >= 2
    /\ isinstance(t, item(t, node, 0), "Array")
    /\ isinstance(t, item(t, node, 1), "FuncExpr")
    /\ t[identifier(t, node)].value = s_define

condition_4(t, node) ==
    /\ Len(args_items(t, node)) >= 3
    /\ isinstance(t, item(t, node, 0), "String")
    /\ isinstance(t, item(t, node, 1), "Array")
    /\ isinstance(t, item(t, node, 2), "FuncExpr")
    /\ t[identifier(t, node)].value = s_define

\* a check is (f, condition): f an extractor with its pos bound, condition
\* the number of one of the lambdas
import_checks ==
    << [f |-> "yield_require_argument", pos |-> 0, condition |-> 1],
       [f |-> "yield_require_list_arguments", pos |-> 0, condition |-> 2],
       [f |-> "yield_require_list_arguments", pos |-> 0, condition |-> 3],
       [f |-> "yield_require_list_arguments", pos |-> 1, condition |-> 4] >>

\* condition(child) of a check
check_condition(check, t, node) ==
    CASE check.condition = 1 -> condition_1(t, node)
      [] check.condition = 2 -> condition_2(t, node)
      [] check.condition = 3 -> condition_3(t, node)
      [] check.condition = 4 -> condition_4(t, node)

\* f(child) of a check
check_f(check, t, node) ==
    IF check.f = "yield_require_argument"
    THEN yield_require_argument(t, node, check.pos)
    ELSE yield_require_list_arguments(t, node, check.pos)

\* the body of the outer loop of yield_module_imports for one child: the
\* checks whose extractor runs, in the order they run.  The `continue`
\* that follows the inner yield loop goes on with the next check.
checks_run(t, child, checks) ==
    SelectSeq(checks, LAMBDA check : check_condition(check, t, child))

\* ... and the names yielded for that child
child_names(t, child, checks) ==
    LET run == checks_run(t, child, checks)
    IN  Concat([k \in 1..Len(run) |-> check_f(run[k], t, child)])

\* the names of s, each at its first occurrence only
RECURSIVE Unique(_)
Unique(s) ==
    IF s = <<>> THEN <<>>
    ELSE LET front == Unique(SubSeq(s, 1, Len(s) - 1))
         IN  IF \E k \in 1..Len(front) : front[k] = s[Len(s)] THEN front
             ELSE Append(front, s[Len(s)])

\* yield_module_imports as it would be if it yielded a name once only
yield_module_imports_unique(t, root, checks) ==
    LET nodes == yield_function(t, root, "deep_filter")
    IN  Unique(Concat([k \in 1..Len(nodes) |-> child_names(t, nodes[k], checks)]))

yield_module_imports(t, root, checks) ==
    LET nodes == yield_function(t, root, "deep_filter")
    IN  Concat([k \in 1..Len(nodes) |-> child_names(t, nodes[k], checks)])

\* extract_module_imports as it would be as a generator function: the
\* parse would run at the first next() of what it returns
extract_module_imports_lazy(src) ==
    LET r == parse(src)
    IN  [raised |-> FALSE, error |-> r.raised,
         items |-> IF r.raised THEN <<>>
                   ELSE yield_module_imports(r.tree, 1, import_checks)]

\* extract_module_imports(text): the parse runs in the call; what is
\* returned is the generator, which has yielded nothing yet
extract_module_imports(src) ==
    LET r == parse(src)
    IN  IF r.raised THEN [raised |-> TRUE, error |-> FALSE, items |-> <<>>]
        ELSE [raised |-> FALSE, error |-> FALSE,
              items |-> yield_module_imports(r.tree, 1, import_checks)]

----------------------------------------------------------------------------
(* The source texts the model is run on *)

\* all sequences over S of length at most n
SeqsUpTo(S, n) == UNION {[1..m -> S] : m \in 0..n}

Alphabet == {DQ, SQ, BS, NL, "a"}

\* the body of a string literal of ES5 quoted by q, from position p on: a
\* backslash escapes the character after it (a newline too: a line
\* continuation), and neither the quote nor a newline stands unescaped
RECURSIVE LiteralBodyFrom(_, _, _)
LiteralBodyFrom(q, b, p) ==
    IF p > Len(b) THEN TRUE
    ELSE IF b[p] = BS THEN p + 1 <= Len(b) /\ LiteralBodyFrom(q, b, p + 2)
    ELSE b[p] \notin {q, NL} /\ LiteralBodyFrom(q, b, p + 1)

LiteralsOf(q) ==
    {Quoted(q, b) : b \in {x \in SeqsUpTo(Alphabet, MaxBody) :
                              LiteralBodyFrom(q, x, 1)}}

Literals == UNION {LiteralsOf(q) : q \in Quotes}

str_a == Quoted(DQ, <<"a">>)
str_b == Quoted(SQ, <<"b">>)
id_x == Identifier(<<"x">>)
no_op == FuncExpr(<<>>, <<>>)

\* a program of one expression statement
Program1(expr) == Program(<<ExprStatement(expr)>>)

\* "<literal>;"
LiteralTexts == {Program1(String(v)) : v \in Literals}

\* define([...], function(){}) for every dependency array over these
\* elements, and two more call shapes for the shorter arrays
Elements ==
    {String(Quoted(DQ, s_require)), String(Quoted(SQ, s_exports)),
     String(Quoted(DQ, s_module)), String(Quoted(DQ, <<"c">>)), id_x}

ArrayTexts ==
    {Program1(FunctionCall(Identifier(s_define), <<Array(e), no_op>>)) :
        e \in SeqsUpTo(Elements, MaxElems)}
    \cup {Program1(FunctionCall(Identifier(s_define),
                                <<String(Quoted(SQ, s_name)), Array(e), no_op>>)) :
            e \in SeqsUpTo(Elements, 2)}
    \cup {Program1(FunctionCall(Identifier(s_require), <<Array(e), no_op>>)) :
            e \in SeqsUpTo(Elements, 2)}

\* what a call is made through: a bare identifier, or a member expression
Callees ==
    {Identifier(s_require), Identifier(s_define), Identifier(s_foo),
     DotAccessor(id_x, Identifier(s_require))}

\* every call of at most MaxArgs arguments of these kinds
ArgKinds == {String(str_a), id_x, Array(<<String(str_b)>>), no_op}

Calls == {FunctionCall(c, a) : c \in Callees, a \in SeqsUpTo(ArgKinds, MaxArgs)}

CallTexts == {Program1(c) : c \in Calls}

\* a call nested in another expression
InnerCalls ==
    {FunctionCall(Identifier(s_require), <<String(str_a)>>),
     FunctionCall(Identifier(s_require), <<Array(<<String(str_b)>>), no_op>>),
     FunctionCall(Identifier(s_define),
                  <<String(Quoted(DQ, s_name)), Array(<<String(str_a)>>), no_op>>),
     FunctionCall(Identifier(s_foo), <<String(str_a)>>),
     FunctionCall(DotAccessor(id_x, Identifier(s_require)), <<String(str_a)>>),
     FunctionCall(Identifier(s_require), <<id_x>>)}

callback(e) == FuncExpr(<<>>, <<ExprStatement(e)>>)

Around(C, E) ==
    {FunctionCall(c, <<callback(e)>>) : c \in C, e \in E}
    \cup {FunctionCall(c, <<Array(<<String(str_b)>>), callback(e)>>) : c \in C, e \in E}
    \cup {FunctionCall(c, <<String(str_a), Array(<<>>), callback(e)>>) : c \in C, e \in E}
    \cup {FunctionCall(c, <<e>>) : c \in C, e \in E}
    \cup {FunctionCall(c, <<Array(<<e>>), no_op>>) : c \in C, e \in E}
    \cup {FunctionCall(e, <<String(str_b)>>) : e \in E}
    \cup {FunctionCall(DotAccessor(e, Identifier(s_foo)), <<String(str_b)>>) : e \in E}

Nested1 == Around(Callees, InnerCalls)
Nested2 ==
    Around({Identifier(s_require)},
           Around({Identifier(s_foo), Identifier(s_define)},
                  {FunctionCall(Identifier(s_require), <<String(str_a)>>),
                   FunctionCall(Identifier(s_foo), <<String(str_a)>>),
                   FunctionCall(Identifier(s_define),
                                <<Array(<<String(str_b)>>), no_op>>)}))

NestedTexts == {Program1(c) : c \in Nested1 \cup Nested2}

\* two statements, the same one twice included
PairTexts ==
    {Program(<<ExprStatement(a), ExprStatement(b)>>) :
        a \in InnerCalls, b \in InnerCalls}

\* the programs of the documented examples
DefineWrapped ==
    Program1(FunctionCall(Identifier(s_define),
        <<Array(<<String(Quoted(DQ, s_require)), String(Quoted(DQ, s_exports)),
                  String(Quoted(DQ, s_module)), String(Quoted(DQ, <<"c">>))>>),
          FuncExpr(<<Identifier(s_require), Identifier(s_exports),
                     Identifier(s_module), Identifier(<<"c">>)>>, <<>>)>>))

DefineInner ==
    Program1(FunctionCall(Identifier(s_define),
        <<Array(<<>>),
          callback(FunctionCall(Identifier(s_require),
                                <<String(Quoted(DQ, s_inner))>>))>>))

RequireAB ==
    Program1(FunctionCall(Identifier(s_require),
        <<Array(<<String(str_a), String(Quoted(DQ, <<"b">>))>>),
          FuncExpr(<<Identifier(<<"a">>), Identifier(<<"b">>)>>, <<>>)>>))

\* [["a"], 'b'];
ArrayInArray ==
    Program1(Array(<<Array(<<String(str_a)>>), String(str_b)>>))

\* a literal with a line continuation in it, required and depended on
continued == Quoted(DQ, <<"a", BS, NL, "b">>)

RequireContinued ==
    Program(<<ExprStatement(FunctionCall(Identifier(s_require), <<String(continued)>>)),
              ExprStatement(FunctionCall(Identifier(s_foo), <<String(continued)>>))>>)

DefineContinued ==
    Program1(FunctionCall(Identifier(s_define),
        <<Array(<<String(continued), String(Quoted(SQ, <<BS, NL>> \o s_module)),
                  String(Quoted(SQ, <<BS>> \o s_module))>>), no_op>>))

ExampleTexts ==
    {DefineWrapped, DefineInner, RequireAB, ArrayInArray, RequireContinued,
     DefineContinued, Program(<<>>)}

\* texts the parser rejects: a valid one cut before its end (a call left
\* without its argument list, say), and one with its nesting unbalanced
Truncations(t) == {SubSeq(t, 1, k) : k \in 0..Len(t)}
Unbalanced(t) == [t EXCEPT ![Len(t)].depth = @ + 2]

RejectedTexts ==
    {x \in UNION {Truncations(Program1(c)) : c \in InnerCalls}
              \cup {Unbalanced(DefineInner), Unbalanced(RequireAB)} :
        ~WellFormed(x)}

Texts ==
    LiteralTexts \cup ArrayTexts \cup CallTexts \cup NestedTexts
        \cup PairTexts \cup ExampleTexts \cup RejectedTexts

----------------------------------------------------------------------------
(* The operations *)

NoCall == [op |-> "none", args |-> <<>>]
NoGen == [error |-> FALSE, items |-> <<>>]

Init ==
    /\ text \in Texts
    /\ pc = "idle"
    /\ call = NoCall
    /\ gen = NoGen
    /\ out = <<>>

\* the caller's tree, for the operations that are given a tree or a node
tree == parse(text).tree

\* to_str(node) on a String node
ToStr ==
    /\ pc = "idle" /\ ~parse(text).raised
    /\ \E node \in 1..Len(tree) :
          /\ isinstance(tree, node, "String")
          /\ call' = [op |-> "to_str", args |-> <<node>>]
          /\ out' = <<to_str(tree[node].value)>>
    /\ pc' = "done"
    /\ UNCHANGED <<text, gen>>


\* the conditions the filters are run with: the lambda of yield_function,
\* conditions on the kind of the node and, on a small tree, every condition
MaxFree == 6

KindSets ==
    {{"String"}, {"FunctionCall"}, {"Array", "FuncExpr"},
     {"Program", "ExprStatement"}, {"FunctionCall", "Arguments", "String"}}

Conditions(t) ==
    {is_identifier_call(t)}
        \cup {{i \in 1..Len(t) : t[i].kind \in K} : K \in KindSets}
        \cup (IF Len(t) <= MaxFree THEN SUBSET (1..Len(t)) ELSE {})

\* list(shallow_filter(tree, condition))
ShallowFilter ==
    /\ pc = "idle" /\ ~parse(text).raised
    /\ \E condition \in Conditions(tree) :
          /\ call' = [op |-> "shallow_filter", args |-> <<condition>>]
          /\ out' = shallow_filter(tree, 1, condition)
    /\ pc' = "done"
    /\ UNCHANGED <<text, gen>>

\* list(deep_filter(tree, condition))
DeepFilter ==
    /\ pc = "idle" /\ ~parse(text).raised
    /\ \E condition \in Conditions(tree) :
          /\ call' = [op |-> "deep_filter", args |-> <<condition>>]
          /\ out' = deep_filter(tree, 1, condition)
    /\ pc' = "done"
    /\ UNCHANGED <<text, gen>>

\* list(yield_function(tree, filter_func))
YieldFunction ==
    /\ pc = "idle" /\ ~parse(text).raised
    /\ \E filter_func \in {"shallow_filter", "deep_filter"} :
          /\ call' = [op |-> "yield_function", args |-> <<filter_func>>]
          /\ out' = yield_function(tree, 1, filter_func)
    /\ pc' = "done"
    /\ UNCHANGED <<text, gen>>

\* list(yield_require_list_arguments(node, pos)) on a FunctionCall node
\* whose argument at pos is an Array
YieldRequireListArguments ==
    /\ pc = "idle" /\ ~parse(text).raised
    /\ \E node \in 1..Len(tree) :
          /\ isinstance(tree, node, "FunctionCall")
          /\ \E pos \in 0..(Len(args_items(tree, node)) - 1) :
                /\ isinstance(tree, item(tree, node, pos), "Array")
                /\ call' = [op |-> "yield_require_list_arguments",
                            args |-> <<node, pos>>]
                /\ out' = yield_require_list_arguments(tree, node, pos)
    /\ pc' = "done"
    /\ UNCHANGED <<text, gen>>

\* the lists of checks yield_module_imports is given: the default, and
\* every list of two of the default's checks
ChecksPool ==
    {import_checks}
        \cup {<<import_checks[i], import_checks[j]>> :
                 i \in DOMAIN import_checks, j \in DOMAIN import_checks}

\* list(yield_module_imports(tree, checks))
YieldModuleImports ==
    /\ pc = "idle" /\ ~parse(text).raised
    /\ \E checks \in ChecksPool :
          /\ call' = [op |-> "yield_module_imports", args |-> <<checks>>]
          /\ out' = yield_module_imports(tree, 1, checks)
    /\ pc' = "done"
    /\ UNCHANGED <<text, gen>>

\* extract_function_argument(text, f_name, f_argn, f_argt), f_argt one of
\* the node types that have a value
ExtractFunctionArgument ==
    /\ pc = "idle"
    /\ \E f_name \in {s_require, s_foo}, f_argn \in 0..1,
          f_argt \in {"String", "Identifier"} :
          LET r == extract_function_argument(text, f_name, f_argn, f_argt)
          IN  /\ call' = [op |-> "extract_function_argument",
                          args |-> <<f_name, f_argn, f_argt>>]
              /\ pc' = IF r.raised THEN "raised" ELSE "done"
              /\ out' = r.value
    /\ UNCHANGED <<text, gen>>

\* g = extract_module_imports(text): either the call raises, or the caller
\* gets the generator g
ExtractModuleImports ==
    /\ pc = "idle"
    /\ LET r == extract_module_imports(text)
       IN  /\ pc' = IF r.raised THEN "raised" ELSE "iter"
           /\ gen' = IF r.raised THEN gen
                     ELSE [error |-> r.error, items |-> r.items]
    /\ call' = [op |-> "extract_module_imports", args |-> <<>>]
    /\ UNCHANGED <<text, out>>

\* next(g): the next name, or the end of the iteration, or the error of a
\* generator whose first step fails
Consume ==
    /\ pc = "iter"
    /\ IF gen.error THEN pc' = "raised" /\ UNCHANGED <<gen, out>>
       ELSE IF gen.items = <<>> THEN pc' = "done" /\ UNCHANGED <<gen, out>>
       ELSE /\ out' = Append(out, Head(gen.items))
            /\ gen' = [gen EXCEPT !.items = Tail(@)]
            /\ pc' = "iter"
    /\ UNCHANGED <<text, call>>

Next ==
    \/ ToStr
    \/ ShallowFilter
    \/ DeepFilter
    \/ YieldFunction
    \/ YieldRequireListArguments
    \/ YieldModuleImports
    \/ ExtractFunctionArgument
    \/ ExtractModuleImports
    \/ Consume

Spec == Init /\ [][Next]_vars

----------------------------------------------------------------------------
(* What the specification says, in its own terms *)

\* a string literal decoded: the outer quote pair removed, then every
\* backslash-and-character pair replaced by the character, left to right
RECURSIVE Unescape(_)
Unescape(b) ==
    IF b = <<>> THEN <<>>
    ELSE IF Head(b) = BS /\ Len(b) >= 2
    THEN <<b[2]>> \o Unescape(SubSeq(b, 3, Len(b)))
    ELSE <<Head(b)>> \o Unescape(Tail(b))

Decoded(raw) == Unescape(SubSeq(raw, 2, Len(raw) - 1))

\* the proper ancestors of node i, the root left out
Above(t, i) == {a \in 2..(i - 1) : i <= End(t, a)}

\* the calls made through a bare identifier, the root's proper descendants
BareCalls(t) ==
    {i \in 2..Len(t) : /\ t[i].kind = "FunctionCall"
                       /\ t[identifier(t, i)].kind = "Identifier"}

Callee(t, n) == t[identifier(t, n)].value
ArgKind(t, n, k) == t[args_items(t, n)[k]].kind

\* the four rows of the table of import shapes; 0 when no row matches
Row(t, n) ==
    LET argc == Len(args_items(t, n))
    IN  IF argc = 1 /\ ArgKind(t, n, 1) = "String" /\ Callee(t, n) = s_require
        THEN 1
        ELSE IF /\ argc >= 2 /\ ArgKind(t, n, 1) = "Array"
                /\ ArgKind(t, n, 2) = "FuncExpr" /\ Callee(t, n) = s_require
        THEN 2
        ELSE IF /\ argc >= 2 /\ ArgKind(t, n, 1) = "Array"
                /\ ArgKind(t, n, 2) = "FuncExpr" /\ Callee(t, n) = s_define
        THEN 3
        ELSE IF /\ argc >= 3 /\ ArgKind(t, n, 1) = "String"
                /\ ArgKind(t, n, 2) = "Array" /\ ArgKind(t, n, 3) = "FuncExpr"
                /\ Callee(t, n) = s_define
        THEN 4
        ELSE 0

Slots == <<s_require, s_exports, s_module>>

\* the names reported of the dependency array arr, in array order, each
\* as to_str decodes it
ReportedOfArray(t, arr) ==
    LET e == children(t, arr)
        keep(k) == /\ t[e[k]].kind = "String"
                   /\ to_str(t[e[k]].value) # s_module
                   /\ ~(k <= 3 /\ to_str(t[e[k]].value) = Slots[k])
    IN  Concat([k \in 1..Len(e) |->
                   IF keep(k) THEN <<to_str(t[e[k]].value)>> ELSE <<>>])

\* the names reported of the call n
Reported(t, n) ==
    CASE Row(t, n) = 1 -> <<to_str(t[args_items(t, n)[1]].value)>>
      [] Row(t, n) \in {2, 3} -> ReportedOfArray(t, args_items(t, n)[1])
      [] Row(t, n) = 4 -> ReportedOfArray(t, args_items(t, n)[2])
      [] OTHER -> <<>>

\* s is a subsequence of u
RECURSIVE IsSubsequence(_, _)
IsSubsequence(s, u) ==
    IF s = <<>> THEN TRUE
    ELSE IF u = <<>> THEN FALSE
    ELSE IF Head(s) = Head(u) THEN IsSubsequence(Tail(s), Tail(u))
    ELSE IsSubsequence(s, Tail(u))

\* the names of the first check of the list whose condition holds of n
FirstMatchNames(t, n, checks) ==
    LET hit == {k \in 1..Len(checks) : check_condition(checks[k], t, n)}
    IN  IF hit = {} THEN <<>> ELSE check_f(checks[Min(hit)], t, n)

\* this many times x occurs in the sequence s
Count(s, x) == Cardinality({k \in 1..Len(s) : s[k] = x})

OverCalls(t, F(_)) ==
    LET calls == SortedSeq(BareCalls(t))
    IN  Concat([k \in 1..Len(calls) |-> F(calls[k])])

----------------------------------------------------------------------------
(* The claims *)

\* the array node the list extractor was run on
ListArray == item(tree, call.args[1], call.args[2])

\* the elements of the array that are String nodes decoding to word, at
\* an index other than slot (counted from 0)
WordElsewhere(word, slot) ==
    LET e == children(tree, ListArray)
    IN  {k \in 1..Len(e) : /\ tree[e[k]].kind = "String"
                           /\ to_str(tree[e[k]].value) = word
                           /\ k - 1 # slot}

\* C1: yield_require_list_arguments emits, in array order, exactly the
\* decoded value of every String element that is neither "module" nor the
\* wrapped-slot word of its own index; "require" is suppressed at index 0
\* only and "exports" at index 1 only, non-String elements emit nothing,
\* and define(["require","exports","module","c"], function(...){}) yields
\* exactly ["c"].
C1_ListExtractor ==
    call.op = "yield_require_list_arguments" =>
        /\ out = ReportedOfArray(tree, ListArray)
        /\ Count(out, s_require) = Cardinality(WordElsewhere(s_require, 0))
        /\ Count(out, s_exports) = Cardinality(WordElsewhere(s_exports, 1))
        /\ Count(out, s_module) = 0
        /\ \A k \in 1..Len(out) : out[k] # <<"x">>
        /\ text = DefineWrapped => out = << <<"c">> >>

\* "require" at index 0 is suppressed and "require" at index 1 is emitted
C1_Witness ==
    /\ call.op = "yield_require_list_arguments"
    /\ pc = "done"
    /\ Len(children(tree, ListArray)) = 3
    /\ tree[children(tree, ListArray)[1]].value = Quoted(DQ, s_require)
    /\ tree[children(tree, ListArray)[2]].value = Quoted(DQ, s_require)
    /\ tree[children(tree, ListArray)[3]].kind = "Identifier"
    /\ out = <<s_require>>

\* the run of yield_module_imports with the default checks
DefaultRun ==
    /\ call.op = "yield_module_imports"
    /\ call.args[1] = import_checks

\* a call that reports names: made through the bare identifier require or
\* define, with arguments of one of the four rows
Qualifies(t, n) ==
    /\ n \in BareCalls(t)
    /\ Callee(t, n) \in {s_require, s_define}
    /\ Row(t, n) # 0

QualifiedNames(n) ==
    IF Qualifies(tree, n) THEN child_names(tree, n, import_checks) ELSE <<>>

\* C2: every name yielded by yield_module_imports comes from a call made
\* through the bare identifier require or define whose arguments match one
\* of the four rows; any other call (another identifier, a member
\* expression, a require or define of another shape) contributes no name.
C2_OnlyImportShapes ==
    DefaultRun =>
        /\ out = OverCalls(tree, QualifiedNames)
        /\ \A n \in BareCalls(tree) :
              ~Qualifies(tree, n) => child_names(tree, n, import_checks) = <<>>
        /\ (\A n \in BareCalls(tree) : ~Qualifies(tree, n)) => out = <<>>

\* a program with a require call of no recognised shape and a name yielded
C2_Witness ==
    /\ DefaultRun
    /\ pc = "done"
    /\ \E n \in BareCalls(tree) :
          Callee(tree, n) = s_require /\ ~Qualifies(tree, n)
    /\ \E n \in 2..Len(tree) :
          tree[n].kind = "FunctionCall" /\ n \notin BareCalls(tree)
    /\ out = <<<<"a">>>>

FirstMatchOf(n) == FirstMatchNames(tree, n, call.args[1])

\* C3: for every candidate call and every list of checks, at most one
\* check's extractor runs: that of the first check whose predicate matches.
C3_FirstMatchWins ==
    call.op = "yield_module_imports" =>
        /\ \A n \in BareCalls(tree) :
              Len(checks_run(tree, n, call.args[1])) <= 1
        /\ out = OverCalls(tree, FirstMatchOf)

\* C4: to_str of a String node whose raw value is a quote, a body and the
\* same quote returns the body with every backslash-and-character pair
\* replaced by the character, whatever the character; the result does not
\* keep the surrounding quotes.
C4_Decodes ==
    call.op = "to_str" =>
        /\ out = <<Decoded(tree[call.args[1]].value)>>
        /\ out # <<tree[call.args[1]].value>>

\* C5: the candidates of yield_module_imports are all the calls made
\* through a bare identifier among the proper descendants of the root, at
\* any depth; define([], function(){ require("inner"); }) yields ["inner"].
C5_DeepCandidates ==
    /\ (call.op = "yield_function" /\ call.args[1] = "deep_filter") =>
          out = SortedSeq(BareCalls(tree))
    /\ call.op = "yield_module_imports" =>
          /\ out = OverCalls(tree, LAMBDA n : child_names(tree, n, call.args[1]))
          /\ (DefaultRun /\ text = DefineInner) => out = <<s_inner>>

\* the nested example, its name yielded
C5_Witness ==
    /\ DefaultRun
    /\ pc = "done"
    /\ text = DefineInner
    /\ out = <<s_inner>>

\* every name the program reports, in document order
AllReported == OverCalls(tree, LAMBDA n : Reported(tree, n))

\* C6: the names come in document order of discovery (an enclosing call
\* before the calls nested in it, earlier siblings before later ones,
\* array order within a call), the sequence is finite, and nothing is
\* deduplicated: a name reported k times is yielded k times.
C6_DocumentOrder ==
    /\ DefaultRun => out = AllReported
    /\ (call.op = "extract_module_imports" /\ pc \in {"iter", "done"}) =>
          /\ out \o gen.items = AllReported
          /\ pc = "done" =>
                /\ gen.items = <<>>
                /\ \A k \in 1..Len(out) : Count(out, out[k]) = Count(AllReported, out[k])
          /\ Len(out) <= Cardinality({i \in 1..Len(tree) : tree[i].kind = "String"})

\* a name required twice and yielded twice, an enclosing call's name first
C6_Witness ==
    /\ call.op = "extract_module_imports"
    /\ pc = "done"
    /\ Len(out) = 2
    /\ out[1] = out[2]
    /\ \E n \in BareCalls(tree) : Above(tree, n) \cap BareCalls(tree) # {}

\* C7: when the parser rejects the text, extract_module_imports raises in
\* the call itself: the caller gets no generator and no name.
C7_ParseErrorInCall ==
    (call.op = "extract_module_imports" /\ parse(text).raised) =>
        /\ pc = "raised"
        /\ gen = NoGen
        /\ out = <<>>

C7_Witness ==
    /\ call.op = "extract_module_imports"
    /\ pc = "raised"
    /\ text = Unbalanced(DefineInner)

\* C8: shallow_filter yields, in document order and each once, exactly
\* the proper descendants of the root that satisfy the condition and have
\* no ancestor below the root that satisfies it; it yields no node inside
\* the subtree of a yielded node, never the root, and its output is a
\* subsequence of deep_filter's.
C8_Shallow ==
    call.op = "shallow_filter" =>
        LET c == call.args[1]
        IN  /\ out = SortedSeq({i \in 2..Len(tree) :
                                   i \in c /\ Above(tree, i) \cap c = {}})
            /\ \A j, k \in 1..Len(out) :
                  /\ j < k => out[j] < out[k]
                  /\ out[j] \notin Above(tree, out[k])
            /\ \A k \in 1..Len(out) : out[k] # 1
            /\ Len(out) <= Len(tree) - 1
            /\ IsSubsequence(out, deep_filter(tree, 1, c))

\* a node that satisfies the condition below a yielded node, not yielded
C8_Witness ==
    /\ call.op = "shallow_filter"
    /\ pc = "done"
    /\ 1 \in call.args[1]
    /\ out # <<>>
    /\ \E i \in call.args[1] \ {1} :
          /\ \A k \in 1..Len(out) : out[k] # i
          /\ \E k \in 1..Len(out) : out[k] \in Above(tree, i)

\* C9: at most one of the four predicates of the default import_checks
\* holds of a call, so trying all the checks yields what stopping at the
\* first match yields.
C9_DefaultChecksExclusive ==
    DefaultRun =>
        /\ \A n \in BareCalls(tree) :
              /\ Cardinality({k \in DOMAIN import_checks :
                                 check_condition(import_checks[k], tree, n)}) <= 1
              /\ child_names(tree, n, import_checks)
                     = FirstMatchNames(tree, n, import_checks)
        /\ out = OverCalls(tree, LAMBDA n : FirstMatchNames(tree, n, import_checks))

\* a define of three arguments, for which the fourth predicate alone holds
C9_Witness ==
    /\ DefaultRun
    /\ pc = "done"
    /\ \E n \in BareCalls(tree) :
          /\ Len(args_items(tree, n)) = 3
          /\ {k \in DOMAIN import_checks :
                 check_condition(import_checks[k], tree, n)} = {4}
    /\ out # <<>>

\* the argument of call n that extract_function_argument asks for, as
\* to_str decodes it
WantedArgument(n) ==
    LET f_name == call.args[1]
        f_argn == call.args[2]
        f_argt == call.args[3]
        items == args_items(tree, n)
    IN  IF /\ Callee(tree, n) = f_name
           /\ Len(items) > f_argn
           /\ tree[items[f_argn + 1]].kind = f_argt
        THEN <<to_str(tree[items[f_argn + 1]].value)>>
        ELSE <<>>

\* the calls made through a bare identifier that lie in no other such call
OutermostCalls == {n \in BareCalls(tree) : Above(tree, n) \cap BareCalls(tree) = {}}

\* C10 as stated: extract_function_argument returns the wanted argument
\* of every call made through the bare identifier f_name, the calls nested
\* in another bare-identifier call included.
C10_AllCalls ==
    (call.op = "extract_function_argument" /\ pc = "done") =>
        out = OverCalls(tree, WantedArgument)

\* C10 as amended: ... of every such call that is not nested in another
\* call made through a bare identifier; a call nested in one contributes
\* nothing.
C10_OutermostCalls ==
    (call.op = "extract_function_argument" /\ pc = "done") =>
        LET calls == SortedSeq(OutermostCalls)
        IN  out = Concat([k \in 1..Len(calls) |-> WantedArgument(calls[k])])

\* the enclosing call's argument returned, the nested call's not
C10_Witness ==
    /\ call.op = "extract_function_argument"
    /\ pc = "done"
    /\ Len(out) = 1
    /\ Len(OverCalls(tree, WantedArgument)) = 2

============================================================================
